---- MODULE Spec2Model ----
(***************************************************************************)
(* Model of two scripts of the repository:                                 *)
(*   - TestFiles/Code/cls.py : the console student-record tool (the        *)
(*     "record store" of the specification), driven by its menu loop;      *)
(*   - TestFiles/Code/gui4.py: the library demo (book list + table view).  *)
(* Text is modelled as a sequence of one-character strings, so that        *)
(* lower(), strip(), split(), int() and float() are computed and not       *)
(* assumed.                                                                *)
(***************************************************************************)
EXTENDS Integers, Sequences, FiniteSets, TLC

\* ------------------------------------------------------------------ bounds
\* Number of Student objects ever constructed and appended in one session.
MaxAdds == 3
\* Number of iterations of menu()'s loop in one session.
MaxIterations == 4
\* Number of entries of the library's book list.
MaxBooks == 2

\* ------------------------------------------------------------ text helpers
\* str.lower() on one character (the letters the inputs are drawn from).
LowerChar(c) ==
    CASE c = "A" -> "a"
      [] c = "B" -> "b"
      [] c = "N" -> "n"
      [] c = "O" -> "o"
      [] OTHER -> c

\* str.lower()
Lower(s) == [i \in 1..Len(s) |-> LowerChar(s[i])]

IsSpace(c) == c = " "

RECURSIVE LStrip(_)
LStrip(s) == IF s # <<>> /\ IsSpace(s[1]) THEN LStrip(Tail(s)) ELSE s

RECURSIVE RStrip(_)
RStrip(s) ==
    IF s # <<>> /\ IsSpace(s[Len(s)]) THEN RStrip(SubSeq(s, 1, Len(s) - 1)) ELSE s

\* str.strip()
Strip(s) == RStrip(LStrip(s))

RECURSIVE SplitAcc(_, _, _, _)
SplitAcc(line, i, cur, acc) ==
    IF i > Len(line)
    THEN IF cur = <<>> THEN acc ELSE Append(acc, cur)
    ELSE IF IsSpace(line[i])
         THEN SplitAcc(line, i + 1, <<>>, IF cur = <<>> THEN acc ELSE Append(acc, cur))
         ELSE SplitAcc(line, i + 1, Append(cur, line[i]), acc)

\* str.split() with no argument: the maximal runs of non-blank characters.
Split(line) == SplitAcc(line, 1, <<>>, <<>>)

IsDigit(c) == c \in {"0", "1", "2", "3", "4", "5", "6", "7", "8", "9"}

DigitVal(c) ==
    CASE c = "0" -> 0 [] c = "1" -> 1 [] c = "2" -> 2 [] c = "3" -> 3
      [] c = "4" -> 4 [] c = "5" -> 5 [] c = "6" -> 6 [] c = "7" -> 7
      [] c = "8" -> 8 [] c = "9" -> 9

\* str.isdigit(): non-empty and every character a digit.
IsDigitStr(s) == s # <<>> /\ \A i \in 1..Len(s) : IsDigit(s[i])

RECURSIVE DigitsVal(_)
DigitsVal(s) ==
    IF s = <<>> THEN 0
    ELSE 10 * DigitsVal(SubSeq(s, 1, Len(s) - 1)) + DigitVal(s[Len(s)])

\* A parse result: the value, or the ValueError the conversion raises.
Parsed(v) == [ok |-> TRUE, val |-> v]
ParseError == [ok |-> FALSE, val |-> 0]

\* The signed-decimal grammar shared by int(text) and float(text): blanks
\* around the text are ignored, an optional sign, then one or more digits.
SignedDecimal(text) ==
    LET t == Strip(text)
        signed == t # <<>> /\ t[1] \in {"-", "+"}
        body == IF signed THEN Tail(t) ELSE t
    IN IF ~IsDigitStr(body) THEN ParseError
       ELSE IF signed /\ t[1] = "-" THEN Parsed(0 - DigitsVal(body))
       ELSE Parsed(DigitsVal(body))

\* int(text), as used on the "age" line.
ParseInt(text) == SignedDecimal(text)

\* float(token), as used on each token of the "grades" line.  The inputs
\* the model draws are signed decimal integers or non-numeric text, on
\* which float() and int() accept the same texts.
ParseFloat(tok) == SignedDecimal(tok)

RECURSIVE MapFloat(_)
\* list(map(float, tokens)): the values, or ValueError at the first bad token.
MapFloat(toks) ==
    IF toks = <<>> THEN Parsed(<<>>)
    ELSE LET h == ParseFloat(toks[1])
         IN IF ~h.ok THEN ParseError
            ELSE LET r == MapFloat(Tail(toks))
                 IN IF ~r.ok THEN ParseError ELSE Parsed(<<h.val>> \o r.val)

\* ------------------------------------------------------- console inputs
\* The names typed: "An", "an" and "Bo".
NameInputs == { <<"A", "n">>, <<"a", "n">>, <<"B", "o">> }
\* The age lines typed: "-1", "0", "1" and "x".
AgeInputs == { <<"-", "1">>, <<"0">>, <<"1">>, <<"x">> }
\* The grades lines typed: empty, "0 100", "x", "101" and "-1".
GradeLines ==
    { <<>>, <<"0", " ", "1", "0", "0">>, <<"x">>, <<"1", "0", "1">>, <<"-", "1">> }
Choices == { "1", "2", "3", "4", "5", "6", "7" }

\* The conversions of the input lines, tabulated once over the inputs drawn.
AgeOf == [t \in AgeInputs |-> ParseInt(t)]
GradesOf == [l \in GradeLines |-> MapFloat(Split(l))]

VARIABLES
    students,   \* cls.py `students`: the list of Student objects
    nextId,     \* number of Student objects appended so far (names object identity)
    running,    \* TRUE while menu()'s loop has not reached `break`
    iterations, \* number of iterations of menu()'s loop begun so far
    choice,     \* the menu choice read by the last iteration ("" when none was read)
    inputs,     \* the lines the last handler read, in order
    printed,    \* kind of message the last handler printed
    out         \* the records the last handler display()ed

svars == <<students, nextId, running, iterations, choice, inputs, printed, out>>

VARIABLES
    books,      \* gui4.py `books`: the list of book dictionaries
    tree,       \* the rows of the table widget, top to bottom
    selection,  \* the positions of the selected rows
    title_var,  \* the four entry fields
    author_var,
    stock_var,
    search_var,
    lastAct     \* what the last update_stock / delete_book acted on

lvars == <<books, tree, selection, title_var, author_var, stock_var, search_var, lastAct>>

\* ------------------------------------------------------------- Student
\* Variant of the constructor whose grade test has no lower bound.
StudentNoLowerBound(id, name, age, grades) ==
    IF age <= 0 THEN ParseError
    ELSE IF ~(\A i \in 1..Len(grades) : grades[i] <= 100)
    THEN ParseError
    ELSE Parsed([id |-> id, name |-> name, age |-> age, grades |-> grades])

\* Student.__init__: the object, or the ValueError it raises.
Student(id, name, age, grades) ==
    IF age <= 0 THEN ParseError
    ELSE IF ~(\A i \in 1..Len(grades) : 0 <= grades[i] /\ grades[i] <= 100)
    THEN ParseError
    ELSE Parsed([id |-> id, name |-> name, age |-> age, grades |-> grades])

\* What Student.display prints of a record (the average it also prints is
\* derived from grades).
Display(s) == [name |-> s.name, age |-> s.age, grades |-> s.grades]

RECURSIVE FindFromExact(_, _, _)
\* Variant of the scan that compares the names as written.
FindFromExact(studs, name, i) ==
    IF i > Len(studs) THEN 0
    ELSE IF studs[i].name = name THEN i
    ELSE FindFromExact(studs, name, i + 1)

RECURSIVE FindFrom(_, _, _)
FindFrom(studs, name, i) ==
    IF i > Len(studs) THEN 0
    ELSE IF Lower(studs[i].name) = Lower(name) THEN i
    ELSE FindFrom(studs, name, i + 1)

RECURSIVE FindLastFrom(_, _, _)
FindLastFrom(studs, name, i) ==
    IF i < 1 THEN 0
    ELSE IF Lower(studs[i].name) = Lower(name) THEN i
    ELSE FindLastFrom(studs, name, i - 1)

\* Variant of find_student that keeps scanning and returns the last match.
find_studentLast(studs, name) == FindLastFrom(studs, name, Len(studs))

\* find_student: the position of the student returned, 0 for None.
find_student(studs, name) == FindFrom(studs, name, 1)

\* Variant of the removal that drops the last element (list.pop()).
RemoveLast(studs, x) == SubSeq(studs, 1, Len(studs) - 1)

\* Variant of the removal that moves the last element into x's place and
\* drops the last position.
RemoveSwapLast(studs, x) ==
    LET k == CHOOSE i \in 1..Len(studs) : studs[i] = x
    IN SubSeq([studs EXCEPT ![k] = studs[Len(studs)]], 1, Len(studs) - 1)

\* Variant of the append that inserts at the front (list.insert(0, x)).
appendFront(studs, s) == <<s>> \o studs

\* list.append(x)
append(studs, s) == Append(studs, s)

RECURSIVE Remove(_, _)
\* list.remove(x): drops the first element equal to x.
Remove(studs, x) ==
    IF studs = <<>> THEN <<>>
    ELSE IF studs[1] = x THEN Tail(studs)
    ELSE <<studs[1]>> \o Remove(Tail(studs), x)

\* ------------------------------------------------------------- handlers
\* input() raises UnicodeDecodeError, a ValueError, on a line that cannot be
\* decoded.  The three input() calls of add_student are inside its try, so the
\* error is caught there: "Error" is printed after the lines read so far.
add_student ==
    \/ \E name \in NameInputs, ageText \in AgeInputs, line \in GradeLines :
        LET a == AgeOf[ageText]
            g == GradesOf[line]
            s == Student(nextId + 1, name, a.val, g.val)
        IN IF ~a.ok
           THEN /\ inputs' = <<name, ageText>>
                /\ printed' = "Error"
                /\ UNCHANGED <<students, nextId>>
           ELSE IF ~g.ok \/ ~s.ok
           THEN /\ inputs' = <<name, ageText, line>>
                /\ printed' = "Error"
                /\ UNCHANGED <<students, nextId>>
           ELSE /\ nextId < MaxAdds
                /\ inputs' = <<name, ageText, line>>
                /\ students' = append(students, s.val)
                /\ nextId' = nextId + 1
                /\ printed' = "added"
    \/ \* the name line cannot be decoded
       /\ inputs' = <<>>
       /\ printed' = "Error"
       /\ UNCHANGED <<students, nextId>>
    \/ \* the age line cannot be decoded
       /\ \E name \in NameInputs : inputs' = <<name>>
       /\ printed' = "Error"
       /\ UNCHANGED <<students, nextId>>
    \/ \* the grades line cannot be decoded (the age line was an integer)
       /\ \E name \in NameInputs, ageText \in AgeInputs :
             AgeOf[ageText].ok /\ inputs' = <<name, ageText>>
       /\ printed' = "Error"
       /\ UNCHANGED <<students, nextId>>

\* The name prompt of update_student is outside its try (see UndecodableLine);
\* the age and grades prompts are inside it.
update_student ==
    \/ \E name \in NameInputs, ageText \in AgeInputs, line \in GradeLines :
        LET k == find_student(students, name)
            a == AgeOf[ageText]
            g == GradesOf[line]
        IN IF k = 0
           THEN /\ inputs' = <<name>>
                /\ printed' = "not found"
                /\ UNCHANGED students
           ELSE IF ~a.ok
           THEN /\ inputs' = <<name, ageText>>
                /\ printed' = "Error"
                /\ UNCHANGED students
           ELSE IF ~g.ok
           THEN /\ inputs' = <<name, ageText, line>>
                /\ printed' = "Error"
                /\ UNCHANGED students
           ELSE /\ inputs' = <<name, ageText, line>>
                /\ students' = [students EXCEPT ![k].age = a.val, ![k].grades = g.val]
                /\ printed' = "updated"
    \/ \* the age line cannot be decoded (the student was found)
       /\ \E name \in NameInputs :
             find_student(students, name) # 0 /\ inputs' = <<name>>
       /\ printed' = "Error"
       /\ UNCHANGED students
    \/ \* the grades line cannot be decoded (the age line was an integer)
       /\ \E name \in NameInputs, ageText \in AgeInputs :
             /\ find_student(students, name) # 0
             /\ AgeOf[ageText].ok
             /\ inputs' = <<name, ageText>>
       /\ printed' = "Error"
       /\ UNCHANGED students

delete_student ==
    \E name \in NameInputs :
        LET k == find_student(students, name)
        IN /\ inputs' = <<name>>
           /\ IF k = 0
              THEN /\ printed' = "not found"
                   /\ UNCHANGED students
              ELSE /\ students' = Remove(students, students[k])
                   /\ printed' = "deleted"

view_student ==
    \E name \in NameInputs :
        LET k == find_student(students, name)
        IN /\ inputs' = <<name>>
           /\ IF k = 0
              THEN /\ printed' = "not found"
                   /\ out' = <<>>
              ELSE /\ printed' = "display"
                   /\ out' = <<Display(students[k])>>

list_students ==
    /\ inputs' = <<>>
    /\ IF students = <<>>
       THEN /\ printed' = "No students"
            /\ out' = <<>>
       ELSE /\ printed' = "display"
            /\ out' = [i \in 1..Len(students) |-> Display(students[i])]

\* ---------------------------------------------------- menu(): one iteration
\* `while True:` begins one more iteration.
Iterate ==
    /\ running
    /\ iterations < MaxIterations
    /\ iterations' = iterations + 1

\* Variant of the first branch in which add_student's ValueError is not
\* caught and ends the loop.
MenuAddUncaught ==
    /\ Iterate /\ choice' = "1"
    /\ add_student
    /\ out' = <<>>
    /\ running' = (printed' # "Error")

MenuAdd ==
    /\ Iterate /\ choice' = "1"
    /\ add_student
    /\ out' = <<>>
    /\ UNCHANGED running

MenuUpdate ==
    /\ Iterate /\ choice' = "2"
    /\ update_student
    /\ out' = <<>>
    /\ UNCHANGED <<running, nextId>>

MenuDelete ==
    /\ Iterate /\ choice' = "3"
    /\ delete_student
    /\ out' = <<>>
    /\ UNCHANGED <<running, nextId>>

MenuView ==
    /\ Iterate /\ choice' = "4"
    /\ view_student
    /\ UNCHANGED <<running, nextId, students>>

MenuList ==
    /\ Iterate /\ choice' = "5"
    /\ list_students
    /\ UNCHANGED <<running, nextId, students>>

MenuExit ==
    /\ Iterate /\ choice' = "6"
    /\ running' = FALSE
    /\ inputs' = <<>> /\ printed' = "Exiting" /\ out' = <<>>
    /\ UNCHANGED <<nextId, students>>

MenuInvalid ==
    /\ Iterate
    /\ \E c \in Choices \ {"1", "2", "3", "4", "5", "6"} : choice' = c
    /\ inputs' = <<>> /\ printed' = "Invalid choice" /\ out' = <<>>
    /\ UNCHANGED <<running, nextId, students>>

\* ------------------------------------------- exceptions that leave menu()
\* menu() and its handlers catch ValueError only, and only inside the try of
\* add_student and update_student.  Any other exception leaves the handler
\* and menu()'s loop with what the iteration had done so far.
\* The exceptions that can be raised
\*   - by an input() call: end of input, a read or prompt-write failure, an
\*     interrupt (an undecodable line is a ValueError: see Stops);
\*   - by a print() call: a write failure, an interrupt;
\*   - between two statements: an interrupt.
AtInput == {"EOFError", "OSError", "KeyboardInterrupt"}
AtPrint == {"OSError", "KeyboardInterrupt"}
Between == {"KeyboardInterrupt"}

\* One place where an iteration can be left: the choice and lines read so far,
\* the store and the records displayed at that place, and the exceptions that
\* can be raised there.
Stop(c, ls, studs, nid, o, es) ==
    [choice |-> c, inputs |-> ls, students |-> studs, nextId |-> nid,
     out |-> o, kinds |-> es]

\* The menu text (cls.py:80-86) and the prompt for the choice (:87), then the
\* branches that read nothing more (:99-103).  input() raises RuntimeError
\* when the interpreter started without a standard input, which the first
\* input() call of the session meets.
MenuStops ==
    { Stop("", <<>>, students, nextId, <<>>,
           AtPrint \cup AtInput \cup {"UnicodeDecodeError"}
               \cup (IF iterations = 0 THEN {"RuntimeError"} ELSE {})) }
    \cup { Stop(c, <<>>, students, nextId, <<>>, AtPrint) :
             c \in Choices \ {"1", "2", "3", "4", "5"} }

\* add_student: its three prompts are inside the try, so an undecodable line
\* is caught there and the next place is the print of the except clause.
AddStops ==
    { Stop("1", <<>>, students, nextId, <<>>, AtInput) }
    \cup { Stop("1", <<name>>, students, nextId, <<>>, AtInput) :
             name \in NameInputs }
    \cup { Stop("1", <<name, ageText>>, students, nextId, <<>>,
                IF AgeOf[ageText].ok THEN AtInput ELSE AtPrint) :
             name \in NameInputs, ageText \in AgeInputs }
    \cup UNION { LET a == AgeOf[ageText]
                     g == GradesOf[line]
                     s == Student(nextId + 1, name, a.val, g.val)
                     ls == <<name, ageText, line>>
                 IN IF ~a.ok THEN {}
                    ELSE IF ~g.ok \/ ~s.ok
                    THEN \* the print of the except clause
                         { Stop("1", ls, students, nextId, <<>>, AtPrint) }
                    ELSE \* before students.append, and at the print after it
                         { Stop("1", ls, students, nextId, <<>>, Between) }
                         \cup (IF nextId < MaxAdds
                               THEN { Stop("1", ls, append(students, s.val),
                                           nextId + 1, <<>>, AtPrint) }
                               ELSE {}) :
                 name \in NameInputs, ageText \in AgeInputs, line \in GradeLines }

\* update_student: the name prompt is outside the try, the age and grades
\* prompts inside it.
UpdateStops ==
    { Stop("2", <<>>, students, nextId, <<>>, AtInput \cup {"UnicodeDecodeError"}) }
    \cup { Stop("2", <<name>>, students, nextId, <<>>,
                IF find_student(students, name) = 0 THEN AtPrint ELSE AtInput) :
             name \in NameInputs }
    \cup UNION { IF find_student(students, name) = 0 THEN {}
                 ELSE { Stop("2", <<name, ageText>>, students, nextId, <<>>,
                             IF AgeOf[ageText].ok THEN AtInput ELSE AtPrint) } :
                 name \in NameInputs, ageText \in AgeInputs }
    \cup UNION { LET k == find_student(students, name)
                     a == AgeOf[ageText]
                     g == GradesOf[line]
                     ls == <<name, ageText, line>>
                 IN IF k = 0 \/ ~a.ok THEN {}
                    ELSE IF ~g.ok
                    THEN { Stop("2", ls, students, nextId, <<>>, AtPrint) }
                    ELSE \* before the assignments, between them, and at the
                         \* print after them
                         { Stop("2", ls, students, nextId, <<>>, Between),
                           Stop("2", ls, [students EXCEPT ![k].age = a.val],
                                nextId, <<>>, Between),
                           Stop("2", ls, [students EXCEPT ![k].age = a.val,
                                                          ![k].grades = g.val],
                                nextId, <<>>, AtPrint) } :
                 name \in NameInputs, ageText \in AgeInputs, line \in GradeLines }

\* delete_student
DeleteStops ==
    { Stop("3", <<>>, students, nextId, <<>>, AtInput \cup {"UnicodeDecodeError"}) }
    \cup UNION { LET k == find_student(students, name)
                 IN IF k = 0
                    THEN { Stop("3", <<name>>, students, nextId, <<>>, AtPrint) }
                    ELSE \* before students.remove, and at the print after it
                         { Stop("3", <<name>>, students, nextId, <<>>, Between),
                           Stop("3", <<name>>, Remove(students, students[k]),
                                nextId, <<>>, AtPrint) } :
                 name \in NameInputs }

\* view_student
ViewStops ==
    { Stop("4", <<>>, students, nextId, <<>>, AtInput \cup {"UnicodeDecodeError"}) }
    \cup UNION { LET k == find_student(students, name)
                 IN IF k = 0
                    THEN { Stop("4", <<name>>, students, nextId, <<>>, AtPrint) }
                    ELSE \* at the print of display(), and after it
                         { Stop("4", <<name>>, students, nextId, <<>>, AtPrint),
                           Stop("4", <<name>>, students, nextId,
                                <<Display(students[k])>>, Between) } :
                 name \in NameInputs }

\* list_students: at the print of the n+1st record, or after the last one.
ListStops ==
    IF students = <<>>
    THEN { Stop("5", <<>>, students, nextId, <<>>, AtPrint) }
    ELSE { Stop("5", <<>>, students, nextId,
                [i \in 1..n |-> Display(students[i])],
                IF n < Len(students) THEN AtPrint ELSE Between) :
             n \in 0..Len(students) }

Stops ==
    MenuStops \cup AddStops \cup UpdateStops \cup DeleteStops \cup ViewStops
        \cup ListStops

\* The exception e is raised at one of the places where it can be, and nothing
\* catches it: the loop ends there.
Escape(e) ==
    /\ Iterate
    /\ \E p \in Stops :
          /\ e \in p.kinds
          /\ choice' = p.choice
          /\ inputs' = p.inputs
          /\ students' = p.students
          /\ nextId' = p.nextId
          /\ out' = p.out
    /\ printed' = e
    /\ running' = FALSE

\* input() raises EOFError when standard input has ended.
EndOfInput == Escape("EOFError")

\* input() raises UnicodeDecodeError on a line that cannot be decoded; at the
\* menu prompt and at the name prompt of update, delete and view the call is
\* outside any try.
UndecodableLine == Escape("UnicodeDecodeError")

\* SIGINT raises KeyboardInterrupt wherever the iteration is.
Interrupt == Escape("KeyboardInterrupt")

\* print() or input() raises OSError (BrokenPipeError is one) when the write
\* or the read fails.
IOFailure == Escape("OSError")

\* input() raises RuntimeError ("lost sys.stdin") when there is no standard
\* input.
LostStdin == Escape("RuntimeError")

StoreInit ==
    /\ students = <<>>
    /\ nextId = 0
    /\ running = TRUE
    /\ iterations = 0
    /\ choice = ""
    /\ inputs = <<>>
    /\ printed = ""
    /\ out = <<>>

\* ======================================================= gui4.py: library
\* Texts the user types into the four entry fields.
TitleTexts == { <<>>, <<"A">>, <<" ", "b">> }
AuthorTexts == { <<>>, <<"y">> }
StockTexts == { <<>>, <<"1">>, <<"2">>, <<"x">> }
SearchTexts == { <<>>, <<"A">>, <<"b">> }

\* `sub in s` on strings.
Contains(sub, s) ==
    \E i \in 0..(Len(s) - Len(sub)) : SubSeq(s, i + 1, i + Len(sub)) = sub

\* The values of one table row, as display_books inserts them.
Row(book) == <<book.title, book.author, book.stock>>

NoAct == [op |-> "none", row |-> <<>>, book |-> <<>>]

\* clear_fields
clear_fields ==
    /\ title_var' = <<>>
    /\ author_var' = <<>>
    /\ stock_var' = <<>>

\* display_books(book_list): the table is emptied (which drops the
\* selection) and refilled with one row per book of the list.
display_books(book_list) ==
    /\ tree' = [i \in 1..Len(book_list) |-> Row(book_list[i])]
    /\ selection' = {}

RECURSIVE FilterBooks(_, _)
FilterBooks(bs, keyword) ==
    IF bs = <<>> THEN <<>>
    ELSE (IF Contains(keyword, Lower(bs[1].title)) \/ Contains(keyword, Lower(bs[1].author))
          THEN <<bs[1]>> ELSE <<>>) \o FilterBooks(Tail(bs), keyword)

\* The list comprehension of search_books.
Results(bs, keyword) == FilterBooks(bs, keyword)

add_book ==
    LET title == Strip(title_var)
        author == Strip(author_var)
        stock == Strip(stock_var)
    IN /\ lastAct' = NoAct
       /\ IF title = <<>> \/ author = <<>> \/ ~IsDigitStr(stock)
          THEN UNCHANGED <<books, tree, selection, title_var, author_var, stock_var, search_var>>
          ELSE /\ Len(books) < MaxBooks
               /\ books' = Append(books, [title |-> title, author |-> author,
                                          stock |-> DigitsVal(stock)])
               /\ clear_fields
               /\ display_books(books')
               /\ UNCHANGED search_var

\* tree.index(selected) for a selection of exactly one row (1-based here).
TreeIndex(sel) == CHOOSE i \in sel : TRUE

RemoveAt(s, i) == SubSeq(s, 1, i - 1) \o SubSeq(s, i + 1, Len(s))

update_stock ==
    LET stock == Strip(stock_var)
    IN IF selection = {}
       THEN /\ lastAct' = NoAct
            /\ UNCHANGED <<books, tree, selection, title_var, author_var, stock_var, search_var>>
       ELSE IF ~IsDigitStr(stock)
       THEN /\ lastAct' = NoAct
            /\ UNCHANGED <<books, tree, selection, title_var, author_var, stock_var, search_var>>
       ELSE IF Cardinality(selection) > 1
       THEN \* tree.index is handed several items and raises TclError
            /\ lastAct' = NoAct
            /\ UNCHANGED <<books, tree, selection, title_var, author_var, stock_var, search_var>>
       ELSE LET index == TreeIndex(selection)
            IN /\ books' = [books EXCEPT ![index].stock = DigitsVal(stock)]
               /\ lastAct' = [op |-> "update_stock", row |-> tree[index],
                              book |-> Row(books[index])]
               /\ clear_fields
               /\ display_books(books')
               /\ UNCHANGED search_var

delete_book ==
    IF selection = {}
    THEN /\ lastAct' = NoAct
         /\ UNCHANGED <<books, tree, selection, title_var, author_var, stock_var, search_var>>
    ELSE IF Cardinality(selection) > 1
    THEN \* tree.index is handed several items and raises TclError
         /\ lastAct' = NoAct
         /\ UNCHANGED <<books, tree, selection, title_var, author_var, stock_var, search_var>>
    ELSE LET index == TreeIndex(selection)
         IN /\ books' = RemoveAt(books, index)
            /\ lastAct' = [op |-> "delete_book", row |-> tree[index],
                           book |-> Row(books[index])]
            /\ display_books(books')
            /\ UNCHANGED <<title_var, author_var, stock_var, search_var>>

search_books ==
    LET keyword == Lower(Strip(search_var))
    IN /\ display_books(Results(books, keyword))
       /\ lastAct' = NoAct
       /\ UNCHANGED <<books, title_var, author_var, stock_var, search_var>>

\* The "Show All" button: display_books() with no argument.
show_all ==
    /\ display_books(books)
    /\ lastAct' = NoAct
    /\ UNCHANGED <<books, title_var, author_var, stock_var, search_var>>

\* The user edits one entry field.
TypeText ==
    /\ \/ \E t \in TitleTexts : title_var' = t /\ UNCHANGED <<author_var, stock_var, search_var>>
       \/ \E t \in AuthorTexts : author_var' = t /\ UNCHANGED <<title_var, stock_var, search_var>>
       \/ \E t \in StockTexts : stock_var' = t /\ UNCHANGED <<title_var, author_var, search_var>>
       \/ \E t \in SearchTexts : search_var' = t /\ UNCHANGED <<title_var, author_var, stock_var>>
    /\ UNCHANGED <<books, tree, selection, lastAct>>

\* The user changes the table's selection (the widget allows several rows).
SelectRows ==
    /\ \E sel \in SUBSET (1..Len(tree)) : selection' = sel
    /\ UNCHANGED <<books, tree, title_var, author_var, stock_var, search_var, lastAct>>

LibInit ==
    /\ books = <<>>
    /\ tree = <<>>
    /\ selection = {}
    /\ title_var = <<>>
    /\ author_var = <<>>
    /\ stock_var = <<>>
    /\ search_var = <<>>
    /\ lastAct = NoAct

vars == <<svars, lvars>>

Init == StoreInit /\ LibInit

\* The console tool: one step is one iteration of menu()'s loop.
Next ==
    \/ MenuAdd /\ UNCHANGED lvars
    \/ MenuUpdate /\ UNCHANGED lvars
    \/ MenuDelete /\ UNCHANGED lvars
    \/ MenuView /\ UNCHANGED lvars
    \/ MenuList /\ UNCHANGED lvars
    \/ MenuExit /\ UNCHANGED lvars
    \/ MenuInvalid /\ UNCHANGED lvars
    \/ EndOfInput /\ UNCHANGED lvars
    \/ UndecodableLine /\ UNCHANGED lvars
    \/ Interrupt /\ UNCHANGED lvars
    \/ IOFailure /\ UNCHANGED lvars
    \/ LostStdin /\ UNCHANGED lvars

Spec == Init /\ [][Next]_vars

\* The library window: one step is one widget callback or one user edit.
LibNext ==
    \/ add_book /\ UNCHANGED svars
    \/ update_stock /\ UNCHANGED svars
    \/ delete_book /\ UNCHANGED svars
    \/ search_books /\ UNCHANGED svars
    \/ show_all /\ UNCHANGED svars
    \/ TypeText /\ UNCHANGED svars
    \/ SelectRows /\ UNCHANGED svars

SpecLib == Init /\ [][LibNext]_vars

\* ====================================================== checked properties
\* The exceptions that leave menu(): the iteration did not run to its end.
Aborts ==
    {"EOFError", "UnicodeDecodeError", "KeyboardInterrupt", "OSError", "RuntimeError"}

MinOf(S) == CHOOSE x \in S : \A y \in S : x <= y

\* The positions of the records whose name equals `name` ignoring case.
Matches(studs, name) == { i \in 1..Len(studs) : Lower(studs[i].name) = Lower(name) }

DropAt(s, i) == [j \in 1..(Len(s) - 1) |-> IF j < i THEN s[j] ELSE s[j + 1]]

ScoreOutOfRange(g) == \E i \in 1..Len(g) : g[i] < 0 \/ g[i] > 100

\* The age and grades lines stand for values update/create must reject.
RejectedValues(ageText, line) ==
    LET a == AgeOf[ageText]
        g == GradesOf[line]
    IN a.ok /\ g.ok /\ (a.val <= 0 \/ ScoreOutOfRange(g.val))

\* The lines an add read make a create with a non-integer age (the grades
\* line is then not asked for), or with a non-positive age, or with a score
\* outside [0, 100].
InvalidCreate(in) ==
    \/ Len(in) = 2 /\ ~AgeOf[in[2]].ok
    \/ /\ Len(in) = 3
       /\ AgeOf[in[2]].ok
       /\ \/ AgeOf[in[2]].val <= 0
          \/ LET g == GradesOf[in[3]] IN g.ok /\ ScoreOutOfRange(g.val)

\* C1: an update of an existing record with age <= 0 or a score outside
\* [0, 100] signals the validation error and leaves the whole store as it was.
C1_UpdateRejectsInvalid ==
    [][ (choice' = "2" /\ Len(inputs') = 3 /\ RejectedValues(inputs'[2], inputs'[3]))
            => (printed' = "Error" /\ students' = students) ]_vars

\* C2: a create with a non-integer or non-positive age, or with a score
\* below 0 or above 100, leaves the sequence of records identical; it signals
\* the validation error and the loop goes on, unless an exception leaves
\* menu() before the message is printed.
C2_CreateRejectsInvalid ==
    [][ (choice' = "1" /\ InvalidCreate(inputs')) =>
            /\ students' = students
            /\ printed' \notin Aborts => (printed' = "Error" /\ running')
            /\ printed' \in Aborts => printed' \in AtPrint ]_vars

\* A create in a non-empty store was rejected for one score above 100 only.
C2_Witness ==
    /\ choice = "1" /\ printed = "Error" /\ students # <<>>
    /\ Len(inputs) = 3
    /\ AgeOf[inputs[2]].ok /\ AgeOf[inputs[2]].val > 0
    /\ GradesOf[inputs[3]].ok
    /\ \E i \in 1..Len(GradesOf[inputs[3]].val) : GradesOf[inputs[3]].val[i] > 100
    /\ \A i \in 1..Len(GradesOf[inputs[3]].val) : GradesOf[inputs[3]].val[i] >= 0

\* C3: every record held in the store has age > 0 and all its scores in
\* [0, 100].
C3_RecordsValid ==
    \A i \in 1..Len(students) :
        students[i].age > 0 /\ ~ScoreOutOfRange(students[i].grades)

\* C4: find returns the lowest-position record whose name matches ignoring
\* case, reports not-found exactly when no record matches, and a lookup
\* (view) leaves the store as it was.
C4_FindFirstMatch ==
    [][ (choice' = "4" /\ printed' \notin Aborts) =>
            /\ students' = students
            /\ LET M == Matches(students, inputs'[1])
               IN IF M = {}
                  THEN printed' = "not found" /\ out' = <<>>
                  ELSE printed' = "display" /\ out' = <<Display(students[MinOf(M)])>>
      ]_vars

C4_Witness ==
    /\ choice = "4" /\ printed = "display"
    /\ Len(students) = 2
    /\ Matches(students, inputs[1]) = {1, 2}
    /\ students[1].name # inputs[1]
    /\ Display(students[1]) # Display(students[2])
    /\ out = <<Display(students[1])>>

\* C5: delete removes exactly the first record whose name matches ignoring
\* case and keeps every other record, in order; with no match it reports
\* not-found and the store is unchanged.
C5_DeleteFirstMatch ==
    [][ (choice' = "3" /\ printed' \notin Aborts) =>
            LET M == Matches(students, inputs'[1])
            IN IF M = {}
               THEN printed' = "not found" /\ students' = students
               ELSE printed' = "deleted" /\ students' = DropAt(students, MinOf(M))
      ]_vars

\* Of three records the middle one was deleted, the first of two that matched
\* the name; the other two are left, in their order.
C5_Witness ==
    /\ choice = "3" /\ printed = "deleted"
    /\ Len(students) = 2
    /\ students[1].id = 1 /\ students[2].id = 3
    /\ Matches(students, inputs[1]) = {2}
    /\ students[1] # students[2]

\* C6: a successful update replaces the age and scores of the first matching
\* record only: its name and position, the store's length and every other
\* record stay as they were.
C6_UpdateInPlace ==
    [][ (choice' = "2" /\ printed' = "updated") =>
            /\ Matches(students, inputs'[1]) # {}
            /\ LET k == MinOf(Matches(students, inputs'[1]))
               IN /\ Len(students') = Len(students)
                  /\ students'[k] = [id |-> students[k].id,
                                     name |-> students[k].name,
                                     age |-> AgeOf[inputs'[2]].val,
                                     grades |-> GradesOf[inputs'[3]].val]
                  /\ \A j \in 1..Len(students) \ {k} : students'[j] = students[j]
      ]_vars

C6_Witness ==
    /\ choice = "2" /\ printed = "updated"
    /\ Len(students) = 2
    /\ Matches(students, inputs[1]) = {1, 2}
    /\ students[1].grades # students[2].grades
    /\ students[1].grades = GradesOf[inputs[3]].val

\* No lookup of `name`, in any letter case, finds a record, and the listing
\* holds no record of that name.
Gone(studs, name) ==
    /\ \A n \in NameInputs : Lower(n) = Lower(name) => find_student(studs, n) = 0
    /\ \A i \in 1..Len(studs) : Lower(studs[i].name) # Lower(name)

\* C7 as stated: after any successful delete(name), find(name) in any letter
\* case signals not-found and the listing holds no record matching name.
C7_DeletedNameGone ==
    (choice = "3" /\ printed = "deleted") => Gone(students, inputs[1])

\* C7 amended: after a successful delete(name) in a store where exactly one
\* record matched name ignoring case, find(name) in any letter case signals
\* not-found and the listing holds no record matching name.
C7_DeletedUniqueNameGone ==
    [][ (choice' = "3" /\ printed' = "deleted"
            /\ Cardinality(Matches(students, inputs'[1])) = 1)
            => Gone(students', inputs'[1]) ]_vars

C7_Witness ==
    /\ choice = "3" /\ printed = "deleted"
    /\ students # <<>>
    /\ Gone(students, inputs[1])

\* The records are held in the order in which they were created.
CreationOrder(studs) ==
    \A i, j \in 1..Len(studs) : i < j => studs[i].id < studs[j].id

\* C8: a successful create appends the new record at the end and changes
\* nothing else; the listing shows the records in creation order, and shows
\* the empty sequence (no error) when the store is empty.
C8_AppendAndListOrder ==
    [][ /\ (choice' = "1" /\ printed' = "added") =>
              /\ Len(students') = Len(students) + 1
              /\ SubSeq(students', 1, Len(students)) = students
              /\ LET r == students'[Len(students')]
                 IN /\ r.name = inputs'[1]
                    /\ r.age = AgeOf[inputs'[2]].val
                    /\ r.grades = GradesOf[inputs'[3]].val
        /\ (choice' = "5" /\ printed' \notin Aborts) =>
              /\ students' = students
              /\ printed' \in {"display", "No students"}
              /\ out' = [i \in 1..Len(students) |-> Display(students[i])]
        /\ CreationOrder(students')
      ]_vars

C8_Witness ==
    /\ choice = "5" /\ printed = "display"
    /\ Len(out) = 2
    /\ out[1] # out[2]
    /\ students[1].id < students[2].id

C10_ActsOnSelectedRow ==
    lastAct.op \in {"update_stock", "delete_book"} =>
        (lastAct.book[1] = lastAct.row[1] /\ lastAct.book[2] = lastAct.row[2])
====
